---- MODULE Spec2Model ----
(***************************************************************************)
(* A model of src/extractor.py: ChatGPTExtractor (start, extract_chat,     *)
(* save_to_file, close) driven by main().                                  *)
(*                                                                         *)
(* Text (innerText values, URLs, the title) is a sequence of one-character *)
(* strings, so that trim, split and length are computed, not assumed.      *)
(* The rendered page is the environment: its DOM is fixed at Init, and     *)
(* every awaited call on playwright / browser / page / the file system     *)
(* either succeeds or raises.                                              *)
(***************************************************************************)
EXTENDS Integers, Sequences, FiniteSets, TLC

VARIABLES
    pc,              \* position of main() / extract_chat()
    share_url,       \* argument of extract_chat
    dom,             \* the rendered page: role_els, articles, divs, title_el
    sel_match,       \* selector -> whether page.wait_for_selector succeeds
    playwright,      \* self.playwright : "none" | "running" | "stopped"
    browser,         \* self.browser    : "none" | "running" | "closed"
    page,            \* the page of extract_chat: "none" | "open" | "closed"
    sel_idx,         \* loop position in selectors_to_try (1-based)
    found_selector,  \* local found_selector, None until a selector matches
    probed,          \* selectors handed to page.wait_for_selector, in order
    debug_file,      \* debug_page.html: "absent" | "written"
    evaluated,       \* page.evaluate calls completed: subset of {"title","messages"}
    title,           \* local title
    messages,        \* local messages
    warned,          \* the "No messages extracted" warning was printed
    chat_data,       \* value returned by extract_chat: <<>> (nothing) or <<doc>>
    export_file,     \* chat_export.json: <<>> (absent) or <<doc>>
    err              \* the exception propagating, None when there is none

vars == << pc, share_url, dom, sel_match, playwright, browser, page, sel_idx,
           found_selector, probed, debug_file, evaluated, title, messages,
           warned, chat_data, export_file, err >>

None == "None"

-----------------------------------------------------------------------------
(* Bounds of the model *)

MaxUrlLen == 4
MaxRoleEls == 2
MaxArticles == 3
MaxDivs == 3

-----------------------------------------------------------------------------
(* Text helpers *)

\* The characters String.prototype.trim removes (those the model's texts use).
IsSpace(c) == c \in {" ", "\n", "\t"}

RECURSIVE TrimLeft(_)
TrimLeft(s) ==
    IF s = <<>> THEN <<>>
    ELSE IF IsSpace(Head(s)) THEN TrimLeft(Tail(s))
    ELSE s

RECURSIVE TrimRight(_)
TrimRight(s) ==
    IF s = <<>> THEN <<>>
    ELSE IF IsSpace(s[Len(s)]) THEN TrimRight(SubSeq(s, 1, Len(s) - 1))
    ELSE s

\* JavaScript's String.prototype.trim
Trim(s) == TrimRight(TrimLeft(s))

RECURSIVE Rep(_, _)
Rep(c, n) == IF n = 0 THEN <<>> ELSE <<c>> \o Rep(c, n - 1)

\* All sequences over S of length at most n
SeqUpTo(S, n) == UNION { [1..k -> S] : k \in 0..n }

-----------------------------------------------------------------------------
(* The page script of extract_chat and the document it is wrapped in *)

\* The candidate selectors, attribute values written without their quotes
selectors_to_try ==
    << "article", "[data-message-author-role]", "[class*=message]",
       "[class*=conversation]", "main", "div[role=presentation]" >>

Selectors == { selectors_to_try[i] : i \in 1..Len(selectors_to_try) }

\* Minimum trimmed length (exclusive) of a content div, and the child limit
MinTextLen == 50
MaxChildren == 5

UntitledChat ==
    << "U", "n", "t", "i", "t", "l", "e", "d", " ", "C", "h", "a", "t" >>

\* titleElement ? titleElement.innerText.trim() : 'Untitled Chat'
ExtractTitle(d) ==
    IF d.title_el # <<>> THEN Trim(d.title_el[1]) ELSE UntitledChat

\* index % 2 === 0 ? 'user' : 'assistant'
PositionRole(index) == IF index % 2 = 0 THEN "user" ELSE "assistant"

\* Strategy 1 pushing content instead of content.trim()
RECURSIVE RoleAttributeStrategyUntrimmed(_)
RoleAttributeStrategyUntrimmed(els) ==
    IF els = <<>> THEN <<>>
    ELSE LET el == Head(els)
             content == IF el.sub # <<>> THEN el.sub[1] ELSE el.text
         IN  (IF Trim(content) # <<>>
              THEN << [role |-> el.role, content |-> content] >>
              ELSE <<>>)
             \o RoleAttributeStrategyUntrimmed(Tail(els))

\* Strategy 1: the forEach over the [data-message-author-role] elements.
\* el.sub is <<t>> when el.querySelector(...) finds a content element with
\* innerText t, and <<>> when it finds none.
RECURSIVE RoleAttributeStrategy(_)
RoleAttributeStrategy(els) ==
    IF els = <<>> THEN <<>>
    ELSE LET el == Head(els)
             content == IF el.sub # <<>> THEN el.sub[1] ELSE el.text
         IN  (IF Trim(content) # <<>>
              THEN << [role |-> el.role, content |-> Trim(content)] >>
              ELSE <<>>)
             \o RoleAttributeStrategy(Tail(els))

\* Strategy 2: the forEach over the article elements; index is the
\* zero-based index of Head(articles) among all article elements.
RECURSIVE ArticleMessages(_, _)
ArticleMessages(articles, index) ==
    IF articles = <<>> THEN <<>>
    ELSE LET content == Trim(Head(articles))
         IN  (IF content # <<>>
              THEN << [role |-> PositionRole(index), content |-> content] >>
              ELSE <<>>)
             \o ArticleMessages(Tail(articles), index + 1)

\* Strategy 2 labelling by position among the kept articles
RECURSIVE KeptArticleMessages(_, _)
KeptArticleMessages(kept, index) ==
    IF kept = <<>> THEN <<>>
    ELSE << [role |-> PositionRole(index), content |-> Trim(Head(kept))] >>
         \o KeptArticleMessages(Tail(kept), index + 1)

HasContent(text) == Trim(text) # <<>>

TaggedBlockStrategyByOutputPosition(articles) ==
    KeptArticleMessages(SelectSeq(articles, HasContent), 0)

TaggedBlockStrategy(articles) == ArticleMessages(articles, 0)

\* Strategy 3: the filter over all divs, then the forEach over the kept ones.
IsContentDiv(div) ==
    /\ div.text # <<>>
    /\ Len(Trim(div.text)) > MinTextLen
    /\ div.children < MaxChildren

RECURSIVE DivMessages(_, _)
DivMessages(contentDivs, index) ==
    IF contentDivs = <<>> THEN <<>>
    ELSE << [role |-> PositionRole(index),
             content |-> Trim(Head(contentDivs).text)] >>
         \o DivMessages(Tail(contentDivs), index + 1)

\* Strategy 3 labelling by index among all divs
RECURSIVE AllDivMessages(_, _)
AllDivMessages(divs, index) ==
    IF divs = <<>> THEN <<>>
    ELSE (IF IsContentDiv(Head(divs))
          THEN << [role |-> PositionRole(index),
                   content |-> Trim(Head(divs).text)] >>
          ELSE <<>>)
         \o AllDivMessages(Tail(divs), index + 1)

HeuristicStrategyByDivIndex(divs) == AllDivMessages(divs, 0)

HeuristicStrategy(divs) == DivMessages(SelectSeq(divs, IsContentDiv), 0)

\* The message script falling through to the next strategy on an empty result
ExtractMessagesFallThrough(d) ==
    IF RoleAttributeStrategy(d.role_els) # <<>>
    THEN RoleAttributeStrategy(d.role_els)
    ELSE IF TaggedBlockStrategy(d.articles) # <<>>
    THEN TaggedBlockStrategy(d.articles)
    ELSE HeuristicStrategy(d.divs)

\* The whole message script: a strategy is chosen by the elements it finds.
ExtractMessages(d) ==
    IF Len(d.role_els) > 0 THEN RoleAttributeStrategy(d.role_els)
    ELSE IF Len(d.articles) > 0 THEN TaggedBlockStrategy(d.articles)
    ELSE HeuristicStrategy(d.divs)

\* str.split('/'): the segments between the separators, empty ones included
RECURSIVE Split(_)
Split(s) ==
    IF \A i \in 1..Len(s) : s[i] # "/" THEN << s >>
    ELSE LET i == CHOOSE k \in 1..Len(s) :
                      s[k] = "/" /\ \A j \in 1..(k - 1) : s[j] # "/"
         IN  << SubSeq(s, 1, i - 1) >> \o Split(SubSeq(s, i + 1, Len(s)))

\* share_url.rstrip('/').split('/')[-1]
ChatIdIgnoresTrailingSlash(url) ==
    LET u == IF url # <<>> /\ url[Len(url)] = "/"
             THEN SubSeq(url, 1, Len(url) - 1) ELSE url
    IN  Split(u)[Len(Split(u))]

\* share_url.split('/')[-1]
ChatId(url) == Split(url)[Len(Split(url))]

\* chat_data with message_count taken from the number of article elements
AssembleDocCountsArticles(url, t, msgs) ==
    [ metadata |-> [ source        |-> "chatgpt",
                     chat_id       |-> ChatId(url),
                     title         |-> t,
                     extracted_at  |-> "utcnow().isoformat()+Z",
                     url           |-> url,
                     message_count |-> Len(dom.articles) ],
      messages |-> msgs ]

\* The chat_data dictionary
AssembleDoc(url, t, msgs) ==
    [ metadata |-> [ source        |-> "chatgpt",
                     chat_id       |-> ChatId(url),
                     title         |-> t,
                     extracted_at  |-> "utcnow().isoformat()+Z",
                     url           |-> url,
                     message_count |-> Len(msgs) ],
      messages |-> msgs ]

-----------------------------------------------------------------------------
(* Inputs: pages and URLs *)

\* share_url of main()
MainUrl ==
    << "h", "t", "t", "p", "s", ":", "/", "/", "c", "h", "a", "t", "g",
       "p", "t", ".", "c", "o", "m", "/", "s", "h", "a", "r", "e", "/",
       "6", "9", "2", "8", "8", "d", "0", "f", "-", "b", "e", "6", "8",
       "-", "8", "0", "0", "3", "-", "b", "d", "4", "1", "-", "b", "b",
       "7", "9", "d", "f", "9", "f", "4", "6", "d", "b" >>

UrlChars == { "/", "a" }
Urls == SeqUpTo(UrlChars, MaxUrlLen) \cup { MainUrl }

LongText == << " " >> \o Rep("x", MinTextLen + 1) \o << "\n" >>
EdgeText == << " " >> \o Rep("x", MinTextLen) \o << " " >>

RoleEls ==
    { [role |-> "user",      sub |-> <<>>,
       text |-> << " ", "H", "e", "l", "l", "o" >>],
      [role |-> "system",    sub |-> <<>>,            text |-> << " ", "\n" >>],
      [role |-> "assistant", sub |-> << << " " >> >>, text |-> << "x" >>],
      [role |-> "assistant", sub |-> << << "H", "i", " " >> >>,
       text |-> << "H", "i", " ", "y", "o", "u" >>] }

EmptyRoleEl == [role |-> "system", sub |-> <<>>, text |-> << " ", "\n" >>]

ArticleTexts == { << " " >>, << " ", "o", " ", "k", "\n" >> }

Divs ==
    { [text |-> LongText, children |-> MaxChildren - 1],
      [text |-> LongText, children |-> MaxChildren],
      [text |-> EdgeText, children |-> 0] }

TitleEls == { <<>>, << << " ", "M", "y", " ", "C", "h", "a", "t", "\n" >> >> }

SomeArticles == { <<>>, << << "o", "k" >> >> }
SomeDivs == { <<>>, << [text |-> LongText, children |-> 0] >> }

Dom(r, a, v, t) == [role_els |-> r, articles |-> a, divs |-> v, title_el |-> t]

RolePages ==
    { Dom(r, a, v, t) : r \in SeqUpTo(RoleEls, MaxRoleEls),
                        a \in SomeArticles, v \in SomeDivs, t \in TitleEls }
ArticlePages ==
    { Dom(r, a, v, t) : r \in { <<>>, << EmptyRoleEl >> },
                        a \in SeqUpTo(ArticleTexts, MaxArticles),
                        v \in SomeDivs, t \in TitleEls }
DivPages ==
    { Dom(r, a, v, t) : r \in { <<>> }, a \in { <<>>, << << " " >> >> },
                        v \in SeqUpTo(Divs, MaxDivs), t \in TitleEls }

Pages == RolePages \cup ArticlePages \cup DivPages

\* A page on which every selector of the list has something to match
FullPage ==
    Dom(<< [role |-> "user", sub |-> <<>>, text |-> << "H", "i" >>] >>,
        << << "o", "k" >> >>,
        << [text |-> LongText, children |-> 0] >>,
        << << "T" >> >>)

OnlyMainMatches == [s \in Selectors |-> s = "main"]

-----------------------------------------------------------------------------
(* Initial states *)

Start(url, d, m) ==
    /\ pc = "start"
    /\ share_url = url
    /\ dom = d
    /\ sel_match = m
    /\ playwright = "none"
    /\ browser = "none"
    /\ page = "none"
    /\ sel_idx = 1
    /\ found_selector = None
    /\ probed = <<>>
    /\ debug_file = "absent"
    /\ evaluated = {}
    /\ title = <<>>
    /\ messages = <<>>
    /\ warned = FALSE
    /\ chat_data = <<>>
    /\ export_file = <<>>
    /\ err = None

\* Every outcome of the six selector waits, on a page that has all elements
InitProbe == \E m \in [Selectors -> BOOLEAN] : Start(MainUrl, FullPage, m)

\* Every page of the pool, found through the "main" selector
InitPages == \E d \in Pages : Start(MainUrl, d, OnlyMainMatches)

\* Every URL of the pool
InitUrls == \E u \in Urls : Start(u, FullPage, OnlyMainMatches)

Init == InitProbe \/ InitPages \/ InitUrls

-----------------------------------------------------------------------------
(* main(): extractor.start() *)

\* An exception inside main's try block: control goes to its finally clause
MainRaises(e) ==
    /\ err' = e
    /\ pc' = "close_browser"

StartPlaywright ==
    /\ pc = "start"
    /\ playwright' = "running"
    /\ pc' = "launch"
    /\ UNCHANGED << share_url, dom, sel_match, browser, page, sel_idx,
                    found_selector, probed, debug_file, evaluated, title,
                    messages, warned, chat_data, export_file, err >>

StartPlaywrightFails ==
    /\ pc = "start"
    /\ MainRaises("StartError")
    /\ UNCHANGED << share_url, dom, sel_match, playwright, browser, page,
                    sel_idx, found_selector, probed, debug_file, evaluated,
                    title, messages, warned, chat_data, export_file >>

LaunchBrowser ==
    /\ pc = "launch"
    /\ browser' = "running"
    /\ pc' = "new_page"
    /\ UNCHANGED << share_url, dom, sel_match, playwright, page, sel_idx,
                    found_selector, probed, debug_file, evaluated, title,
                    messages, warned, chat_data, export_file, err >>

LaunchBrowserFails ==
    /\ pc = "launch"
    /\ MainRaises("StartError")
    /\ UNCHANGED << share_url, dom, sel_match, playwright, browser, page,
                    sel_idx, found_selector, probed, debug_file, evaluated,
                    title, messages, warned, chat_data, export_file >>

-----------------------------------------------------------------------------
(* extract_chat(share_url) *)

\* An exception inside extract_chat with no finally clause
ExtractRaisesNoFinally(e) ==
    /\ err' = e
    /\ pc' = "close_browser"

\* An exception inside extract_chat's try block: it is printed and re-raised,
\* and the finally clause closes the page on the way out
ExtractRaises(e) ==
    /\ err' = e
    /\ pc' = "page_close"

NewPage ==
    /\ pc = "new_page"
    /\ page' = "open"
    /\ pc' = "goto"
    /\ UNCHANGED << share_url, dom, sel_match, playwright, browser, sel_idx,
                    found_selector, probed, debug_file, evaluated, title,
                    messages, warned, chat_data, export_file, err >>

\* browser.new_page() is awaited before the try block is entered
NewPageFails ==
    /\ pc = "new_page"
    /\ MainRaises("PageError")
    /\ UNCHANGED << share_url, dom, sel_match, playwright, browser, page,
                    sel_idx, found_selector, probed, debug_file, evaluated,
                    title, messages, warned, chat_data, export_file >>

\* page.goto(...) followed by the settle delay
Goto ==
    /\ pc = "goto"
    /\ pc' = "probe"
    /\ UNCHANGED << share_url, dom, sel_match, playwright, browser, page,
                    sel_idx, found_selector, probed, debug_file, evaluated,
                    title, messages, warned, chat_data, export_file, err >>

GotoFails ==
    /\ pc = "goto"
    /\ ExtractRaises("NavigationTimeout")
    /\ UNCHANGED << share_url, dom, sel_match, playwright, browser, page,
                    sel_idx, found_selector, probed, debug_file, evaluated,
                    title, messages, warned, chat_data, export_file >>

\* The loop iteration without its break statement
ProbeSelectorNoBreak ==
    /\ pc = "probe"
    /\ sel_idx <= Len(selectors_to_try)
    /\ LET selector == selectors_to_try[sel_idx]
       IN  /\ probed' = Append(probed, selector)
           /\ found_selector' = IF sel_match[selector] THEN selector
                                ELSE found_selector
           /\ sel_idx' = sel_idx + 1
           /\ pc' = IF sel_idx = Len(selectors_to_try)
                    THEN "check_found" ELSE "probe"
    /\ UNCHANGED << share_url, dom, sel_match, playwright, browser, page,
                    debug_file, evaluated, title, messages, warned,
                    chat_data, export_file, err >>

\* One iteration of the for loop over selectors_to_try
ProbeSelector ==
    /\ pc = "probe"
    /\ sel_idx <= Len(selectors_to_try)
    /\ LET selector == selectors_to_try[sel_idx]
       IN  /\ probed' = Append(probed, selector)
           /\ IF sel_match[selector]
              THEN /\ found_selector' = selector
                   /\ pc' = "check_found"
                   /\ UNCHANGED sel_idx
              ELSE /\ sel_idx' = sel_idx + 1
                   /\ pc' = IF sel_idx = Len(selectors_to_try)
                            THEN "check_found" ELSE "probe"
                   /\ UNCHANGED found_selector
    /\ UNCHANGED << share_url, dom, sel_match, playwright, browser, page,
                    debug_file, evaluated, title, messages, warned,
                    chat_data, export_file, err >>

\* if not found_selector
CheckFound ==
    /\ pc = "check_found"
    /\ pc' = IF found_selector = None THEN "dump" ELSE "title"
    /\ UNCHANGED << share_url, dom, sel_match, playwright, browser, page,
                    sel_idx, found_selector, probed, debug_file, evaluated,
                    title, messages, warned, chat_data, export_file, err >>

\* The failure branch without the debug dump
DumpDebugPageSkipped ==
    /\ pc = "dump"
    /\ pc' = "raise_not_found"
    /\ UNCHANGED << share_url, dom, sel_match, playwright, browser, page,
                    sel_idx, found_selector, probed, debug_file, evaluated,
                    title, messages, warned, chat_data, export_file, err >>

\* page.content() written to debug_page.html
DumpDebugPage ==
    /\ pc = "dump"
    /\ debug_file' = "written"
    /\ pc' = "raise_not_found"
    /\ UNCHANGED << share_url, dom, sel_match, playwright, browser, page,
                    sel_idx, found_selector, probed, evaluated, title,
                    messages, warned, chat_data, export_file, err >>

DumpDebugPageFails ==
    /\ pc = "dump"
    /\ ExtractRaises("DumpError")
    /\ UNCHANGED << share_url, dom, sel_match, playwright, browser, page,
                    sel_idx, found_selector, probed, debug_file, evaluated,
                    title, messages, warned, chat_data, export_file >>

\* raise Exception("Could not find chat content on page")
RaiseNotFound ==
    /\ pc = "raise_not_found"
    /\ ExtractRaises("ContentNotFound")
    /\ UNCHANGED << share_url, dom, sel_match, playwright, browser, page,
                    sel_idx, found_selector, probed, debug_file, evaluated,
                    title, messages, warned, chat_data, export_file >>

EvaluateTitle ==
    /\ pc = "title"
    /\ title' = ExtractTitle(dom)
    /\ evaluated' = evaluated \cup { "title" }
    /\ pc' = "messages"
    /\ UNCHANGED << share_url, dom, sel_match, playwright, browser, page,
                    sel_idx, found_selector, probed, debug_file, messages,
                    warned, chat_data, export_file, err >>

EvaluateTitleFails ==
    /\ pc = "title"
    /\ ExtractRaises("EvaluateError")
    /\ UNCHANGED << share_url, dom, sel_match, playwright, browser, page,
                    sel_idx, found_selector, probed, debug_file, evaluated,
                    title, messages, warned, chat_data, export_file >>

EvaluateMessages ==
    /\ pc = "messages"
    /\ messages' = ExtractMessages(dom)
    /\ evaluated' = evaluated \cup { "messages" }
    /\ pc' = "assemble"
    /\ UNCHANGED << share_url, dom, sel_match, playwright, browser, page,
                    sel_idx, found_selector, probed, debug_file, title,
                    warned, chat_data, export_file, err >>

EvaluateMessagesFails ==
    /\ pc = "messages"
    /\ ExtractRaises("EvaluateError")
    /\ UNCHANGED << share_url, dom, sel_match, playwright, browser, page,
                    sel_idx, found_selector, probed, debug_file, evaluated,
                    title, messages, warned, chat_data, export_file >>

\* extract_chat treating an empty result as an error
AssembleChatDataRaisesOnEmpty ==
    /\ pc = "assemble"
    /\ IF Len(messages) = 0
       THEN /\ ExtractRaises("NoMessages")
            /\ UNCHANGED << warned, chat_data >>
       ELSE /\ warned' = FALSE
            /\ chat_data' = << AssembleDoc(share_url, title, messages) >>
            /\ pc' = "page_close"
            /\ UNCHANGED err
    /\ UNCHANGED << share_url, dom, sel_match, playwright, browser, page,
                    sel_idx, found_selector, probed, debug_file, evaluated,
                    title, messages, export_file >>

\* chat_id, the empty-result warning, chat_data and the return statement
AssembleChatData ==
    /\ pc = "assemble"
    /\ warned' = (Len(messages) = 0)
    /\ chat_data' = << AssembleDoc(share_url, title, messages) >>
    /\ pc' = "page_close"
    /\ UNCHANGED << share_url, dom, sel_match, playwright, browser, page,
                    sel_idx, found_selector, probed, debug_file, evaluated,
                    title, messages, export_file, err >>

\* finally: await page.close(); then back in main
PageClose ==
    /\ pc = "page_close"
    /\ page' = "closed"
    /\ pc' = IF err = None THEN "save" ELSE "close_browser"
    /\ UNCHANGED << share_url, dom, sel_match, playwright, browser, sel_idx,
                    found_selector, probed, debug_file, evaluated, title,
                    messages, warned, chat_data, export_file, err >>

-----------------------------------------------------------------------------
(* main(): printing and saving the document, then the finally clause *)

SaveToFile ==
    /\ pc = "save"
    /\ export_file' = chat_data
    /\ pc' = "close_browser"
    /\ UNCHANGED << share_url, dom, sel_match, playwright, browser, page,
                    sel_idx, found_selector, probed, debug_file, evaluated,
                    title, messages, warned, chat_data, err >>

SaveToFileFails ==
    /\ pc = "save"
    /\ MainRaises("SaveError")
    /\ UNCHANGED << share_url, dom, sel_match, playwright, browser, page,
                    sel_idx, found_selector, probed, debug_file, evaluated,
                    title, messages, warned, chat_data, export_file >>

\* close(): if self.browser: await self.browser.close()
CloseBrowser ==
    /\ pc = "close_browser"
    /\ browser' = IF browser = "running" THEN "closed" ELSE browser
    /\ pc' = "stop_playwright"
    /\ UNCHANGED << share_url, dom, sel_match, playwright, page, sel_idx,
                    found_selector, probed, debug_file, evaluated, title,
                    messages, warned, chat_data, export_file, err >>

\* close(): if self.playwright: await self.playwright.stop()
StopPlaywright ==
    /\ pc = "stop_playwright"
    /\ playwright' = IF playwright = "running" THEN "stopped" ELSE playwright
    /\ pc' = "done"
    /\ UNCHANGED << share_url, dom, sel_match, browser, page, sel_idx,
                    found_selector, probed, debug_file, evaluated, title,
                    messages, warned, chat_data, export_file, err >>

Next ==
    \/ StartPlaywright
    \/ StartPlaywrightFails
    \/ LaunchBrowser
    \/ LaunchBrowserFails
    \/ NewPage
    \/ NewPageFails
    \/ Goto
    \/ GotoFails
    \/ ProbeSelector
    \/ CheckFound
    \/ DumpDebugPage
    \/ DumpDebugPageFails
    \/ RaiseNotFound
    \/ EvaluateTitle
    \/ EvaluateTitleFails
    \/ EvaluateMessages
    \/ EvaluateMessagesFails
    \/ AssembleChatData
    \/ PageClose
    \/ SaveToFile
    \/ SaveToFileFails
    \/ CloseBrowser
    \/ StopPlaywright

Spec == Init /\ [][Next]_vars

\* The runs checked for termination: every outcome of the selector waits,
\* and every page of the pool that has no div, under a short URL
ShortUrl == << "a", "/", "a" >>
SmallPage == Dom(<< EmptyRoleEl >>, << << "o", "k" >> >>, <<>>, <<>>)

InitFair ==
    \/ \E m \in [Selectors -> BOOLEAN] : Start(ShortUrl, SmallPage, m)
    \/ \E d \in { q \in Pages : q.divs = <<>> } :
            Start(ShortUrl, d, OnlyMainMatches)

\* asyncio runs main() to completion: a step that can be taken is taken
FairSpec == InitFair /\ [][Next]_vars /\ WF_vars(Next)

-----------------------------------------------------------------------------
(* Properties *)

MessagesExtracted == "messages" \in evaluated
ProbeOver == probed # <<>> /\ pc # "probe"
AfterExtractChat == pc \in { "save", "close_browser", "stop_playwright", "done" }

RoleOut == RoleAttributeStrategy(dom.role_els)
TaggedOut == TaggedBlockStrategy(dom.articles)
HeuristicOut == HeuristicStrategy(dom.divs)

\* C1 (as claimed): the extracted messages are the output of the
\* highest-priority strategy whose output is non-empty, and are empty only if
\* all three strategies yield nothing.
C1_FirstNonEmptyOutputWins ==
    MessagesExtracted =>
        /\ messages = (IF RoleOut # <<>> THEN RoleOut
                       ELSE IF TaggedOut # <<>> THEN TaggedOut
                       ELSE HeuristicOut)
        /\ (messages = <<>> =>
                RoleOut = <<>> /\ TaggedOut = <<>> /\ HeuristicOut = <<>>)

\* C1 (amended): the extracted messages are the output of the
\* highest-priority strategy that finds candidate elements (role-marked
\* elements, then article elements, the heuristic strategy otherwise), even
\* when that output is empty; they are empty only if that strategy yields
\* nothing.
C1_FirstStrategyWithElementsWins ==
    MessagesExtracted =>
        /\ (dom.role_els # <<>> => messages = RoleOut)
        /\ (dom.role_els = <<>> /\ dom.articles # <<>> => messages = TaggedOut)
        /\ (dom.role_els = <<>> /\ dom.articles = <<>> =>
                messages = HeuristicOut)

\* A page whose role-marked elements are all empty while an article has text
C1_Witness ==
    /\ MessagesExtracted
    /\ dom.role_els # <<>>
    /\ RoleOut = <<>>
    /\ TaggedOut # <<>>
    /\ messages = <<>>

FirstMatch ==
    CHOOSE k \in 1..Len(selectors_to_try) :
        /\ sel_match[selectors_to_try[k]]
        /\ \A j \in 1..(k - 1) : ~sel_match[selectors_to_try[j]]

\* C2: when some selector of the list matches, the prober reports the first
\* one in list order that matches, has tried exactly the selectors up to it,
\* and tries none after it.
C2_ProberReportsFirstMatch ==
    /\ (found_selector # None =>
            /\ sel_match[found_selector]
            /\ found_selector = selectors_to_try[FirstMatch]
            /\ probed = SubSeq(selectors_to_try, 1, FirstMatch))
    /\ (ProbeOver /\ (\E s \in Selectors : sel_match[s]) =>
            found_selector # None)

\* The third selector is reported although the fifth matches too
C2_Witness ==
    /\ pc = "done"
    /\ found_selector = selectors_to_try[3]
    /\ sel_match[selectors_to_try[5]]
    /\ Len(probed) = 3

\* C3: when no selector matches, the debug file is written before the
\* content-not-found error is raised, no title or message script is run and
\* no document is returned; the debug file is never written when a selector
\* matched.
C3_DumpThenNotFound ==
    /\ (err = "ContentNotFound" => debug_file = "written")
    /\ (pc = "raise_not_found" => debug_file = "written")
    /\ (debug_file = "written" =>
            /\ found_selector = None
            /\ \A s \in Selectors : ~sel_match[s])
    /\ (ProbeOver /\ found_selector = None =>
            /\ evaluated = {}
            /\ chat_data = <<>>
            /\ (AfterExtractChat => err \in { "ContentNotFound", "DumpError" })
            /\ (AfterExtractChat /\ debug_file = "written" =>
                    err = "ContentNotFound"))

C3_Witness ==
    /\ pc = "done"
    /\ Len(probed) = Len(selectors_to_try)
    /\ debug_file = "written"
    /\ err = "ContentNotFound"
    /\ chat_data = <<>>

Released == page # "open" /\ browser # "running" /\ playwright # "running"

\* C4: on every exit path the opened page is eventually closed and the
\* started browser and playwright driver are eventually stopped, and the
\* page is never open once either of them has been stopped.
C4_ResourcesReleased ==
    /\ [](page = "open" => browser = "running" /\ playwright = "running")
    /\ <>[](pc = "done" /\ Released)

\* A failed run that had opened a page and ends with everything released
C4_Witness ==
    /\ pc = "done"
    /\ err = "NavigationTimeout"
    /\ page = "closed"
    /\ browser = "closed"
    /\ playwright = "stopped"

\* C5: in every returned document message_count is the number of messages.
C5_MessageCountIsLength ==
    /\ (chat_data # <<>> =>
            chat_data[1].metadata.message_count = Len(chat_data[1].messages))
    /\ (export_file # <<>> =>
            export_file[1].metadata.message_count
                = Len(export_file[1].messages))

\* A returned document whose page has more articles than messages
C5_Witness ==
    /\ chat_data # <<>>
    /\ chat_data[1].metadata.message_count = 2
    /\ Len(dom.articles) = 3

\* C6: every extracted message has trimmed, non-empty content.
C6_ContentTrimmedNonEmpty ==
    /\ \A k \in 1..Len(messages) :
            /\ messages[k].content # <<>>
            /\ ~IsSpace(messages[k].content[1])
            /\ ~IsSpace(messages[k].content[Len(messages[k].content)])
    /\ (chat_data # <<>> =>
            \A k \in 1..Len(chat_data[1].messages) :
                /\ chat_data[1].messages[k].content # <<>>
                /\ ~IsSpace(Head(chat_data[1].messages[k].content)))

\* Role-marked elements of which one is dropped and one is trimmed
C6_Witness ==
    /\ MessagesExtracted
    /\ Len(dom.role_els) = 2
    /\ Len(messages) = 1
    /\ \E i \in 1..2 :
          /\ dom.role_els[i].sub # <<>>
          /\ messages[1].content = Trim(dom.role_els[i].sub[1])
          /\ messages[1].content # dom.role_els[i].sub[1]

\* Indices (1-based) of the articles whose trimmed text is non-empty
KeptArticles == { i \in 1..Len(dom.articles) : Trim(dom.articles[i]) # <<>> }

\* C7: with no role-marked element and at least one article, the messages
\* are the articles with text, in document order, and the message of the
\* article at zero-based index i is "user" for even i, "assistant" for odd i.
C7_RoleByArticleIndex ==
    MessagesExtracted /\ dom.role_els = <<>> /\ Len(dom.articles) >= 1 =>
        /\ Len(messages) = Cardinality(KeptArticles)
        /\ \A i \in KeptArticles :
              LET k == Cardinality({ j \in KeptArticles : j <= i })
              IN  /\ messages[k].content = Trim(dom.articles[i])
                  /\ messages[k].role =
                         (IF (i - 1) % 2 = 0 THEN "user" ELSE "assistant")

\* Three articles, the middle one empty
C7_Witness ==
    /\ MessagesExtracted
    /\ dom.role_els = <<>>
    /\ Len(dom.articles) = 3
    /\ KeptArticles = { 1, 3 }
    /\ Len(messages) = 2

\* C8: when a selector matched and no message was extracted, extract_chat
\* does not fail: after the warning it returns a document with no messages
\* and message_count 0, and the page is closed.
C8_EmptyResultIsADocument ==
    MessagesExtracted /\ messages = <<>> /\ pc # "assemble" =>
        /\ found_selector # None
        /\ warned
        /\ chat_data # <<>>
        /\ chat_data[1].messages = <<>>
        /\ chat_data[1].metadata.message_count = 0
        /\ err \in { None, "SaveError" }
        /\ (pc = "page_close" => err = None)
        /\ (AfterExtractChat => page = "closed")

\* No strategy finds a message, and the empty document is saved
C8_Witness ==
    /\ pc = "done"
    /\ MessagesExtracted
    /\ RoleOut = <<>> /\ TaggedOut = <<>> /\ HeuristicOut = <<>>
    /\ export_file # <<>>
    /\ export_file[1].metadata.message_count = 0
    /\ page = "closed"

HasSlash(u) == \E i \in 1..Len(u) : u[i] = "/"
LastSlash(u) ==
    CHOOSE i \in 1..Len(u) : u[i] = "/" /\ \A j \in (i + 1)..Len(u) : u[j] # "/"

\* C9: for a URL with a '/', chat_id is the text after the final '/' (empty
\* when the URL ends in '/'), and metadata.url is the URL unchanged.
C9_ChatIdIsLastSegment ==
    chat_data # <<>> =>
        /\ chat_data[1].metadata.url = share_url
        /\ (HasSlash(share_url) =>
                chat_data[1].metadata.chat_id
                    = SubSeq(share_url, LastSlash(share_url) + 1,
                             Len(share_url)))
        /\ (share_url # <<>> /\ share_url[Len(share_url)] = "/" =>
                chat_data[1].metadata.chat_id = <<>>)

\* A URL ending in '/'
C9_Witness ==
    /\ chat_data # <<>>
    /\ share_url = << "a", "/", "a", "/" >>
    /\ chat_data[1].metadata.chat_id = <<>>

AlternatesByPosition(msgs) ==
    \A k \in 1..Len(msgs) :
        msgs[k].role = (IF (k - 1) % 2 = 0 THEN "user" ELSE "assistant")

\* C10 (as claimed): messages of the tagged-block or heuristic strategy
\* alternate "user", "assistant", ... by output position on every page.
C10_RolesAlternateByPosition ==
    MessagesExtracted /\ dom.role_els = <<>> => AlternatesByPosition(messages)

\* C10 (amended): messages of the heuristic strategy alternate by output
\* position on every page; messages of the tagged-block strategy do so on
\* every page where no article was discarded for empty content.
C10_RolesAlternateUnlessArticleDropped ==
    MessagesExtracted /\ dom.role_els = <<>>
        /\ (dom.articles = <<>> \/ KeptArticles = 1..Len(dom.articles))
        => AlternatesByPosition(messages)

\* Heuristic strategy: three divs, the middle one discarded
C10_Witness ==
    /\ MessagesExtracted
    /\ dom.role_els = <<>>
    /\ dom.articles = <<>>
    /\ Len(dom.divs) = 3
    /\ IsContentDiv(dom.divs[1])
    /\ ~IsContentDiv(dom.divs[2])
    /\ IsContentDiv(dom.divs[3])
    /\ Len(messages) = 2

====
